---- MODULE Spec2Model ----
(***************************************************************************)
(* Info-Guard analysis orchestration.                                      *)
(*  - Spec:     POST /analyze, its background job and GET /status          *)
(*              (nodejs-server/src/api/routes/analysis.js) with the Redis  *)
(*              result cache.                                              *)
(*  - SpecPush: the same routes with the Socket.IO analysis rooms of       *)
(*              routes/user.js.                                            *)
(*  - SpecWs:   the WebSocket manager of feature/06 driving analysis       *)
(*              sessions that can be cancelled.                            *)
(*  - SpecBatch:   POST /batch of part_021.                                 *)
(*  - SpecPy:      /ws/analysis/{video_id} of part_000.                    *)
(*  - SpecSocket:  the Socket.IO rooms and emitters of routes/user.js.     *)
(*  - SpecSvc:     AnalysisService.analyze_video and its overall score.    *)
(*  - SpecRepo:    AnalysisRepository and RedisService over redis.         *)
(*  - SpecExt:     the extension's background service and analysisCache.   *)
(*  - SpecAnalyze: POST /analyze with bodies carrying requested_stages.    *)
(*  - SpecBudget:  POST /analyze and its job against MAX_PROCESSING_TIME.  *)
(*  - SpecWsCancel: the feature/06 endpoint with cancel_analysis messages. *)
(*  - SpecScript:  InfoGuardContentScript of part_005 (startAnalysis).     *)
(*  - SpecContent: InfoGuardContent of part_005 (click and polling).       *)
(*  - SpecNodeWs:  the WebSocket handler of the node server (part_013).    *)
(***************************************************************************)
EXTENDS Integers, Sequences, FiniteSets, TLC

\* ---------------------------------------------------------------- bounds
MaxReq == 2          \* HTTP requests handled in one behaviour
MaxNow == 7200       \* the clock stops advancing at this many seconds
MaxScriptRequests == 3  \* analyzeVideo messages the content script sends
MaxWsMessages == 3      \* messages received on the node WebSocket
MaxClicks == 2          \* clicks on the analysis button
TickSeconds == 3600  \* seconds the clock advances per Tick
MaxTasks == 2        \* analysis tasks started over WebSocket in one behaviour
MaxSvcCalls == 2     \* analyze_video calls made in one behaviour
MaxExtNow == 192     \* the extension's clock stops advancing at this many hours
ExtTickHours == 24   \* hours the extension's clock advances per ExtTick

\* ------------------------------------------------------ program constants
CACHE_TTL == 3600    \* redis.setEx(cacheKey, 3600, ...)
PROGRESS_PENDING == 0
PROGRESS_PROCESSING == 50
PROGRESS_COMPLETED == 100
DEFAULT_SCORE == 5000  \* .get('..._score', 50), in hundredths of a point
FULL_SCORE == 10000    \* the 100 of `100 - bias_score`, in hundredths
MAX_PROCESSING_TIME == 30000  \* ANALYSIS_CONFIG.MAX_PROCESSING_TIME, ms
EXT_CACHE_HOURS == 24  \* 24 * 60 * 60 * 1000 ms: age up to which a cached result is used
EXT_MAX_AGE_HOURS == 168  \* 7 * 24 * 60 * 60 * 1000 ms: age beyond which optimizeMemory deletes

\* ------------------------------------------------------------ input sets
Urls == {"u1", "u2"}
Sockets == {"s1", "s2"}
Conns == {"k1", "k2"}
Clients == {"c1", "c2"}
Videos == {"v1", "v2"}
NoConn == "none"
NoMessage == [type |-> "none"]
StageLists == {<<"sentiment">>, <<"sentiment", "bias">>}
BadUrl == "not-a-url"
BatchVideos == {"v1", "v2"}
NullItem == "null"
PyConns == {"p1", "p2"}
NoResult == [none |-> TRUE]
NoEntry == [absent |-> TRUE]
NoError == "none"
NoResp == [sent |-> FALSE]
NoStages == [present |-> FALSE, value |-> <<>>]

\* results the job's Math.random() * 100 draws can yield (two samples)
ResultSamples ==
  { [credibility |-> 0, bias |-> 0, factuality |-> 0, overall |-> 0],
    [credibility |-> 99, bias |-> 12, factuality |-> 50, overall |-> 73] }

VARIABLES
  analyses,   \* prisma.analysis table: sequence, id = index
  jobs,       \* background job of each analysis: pc, local result, call counts
  cache,      \* redis: cache key (video url) -> entry or NoEntry
  now,        \* wall clock, seconds
  req,        \* HTTP POST /analyze handlers: pc, url, response
  connected,  \* Socket.IO: sockets currently connected
  rooms,      \* Socket.IO: socket -> analysis ids whose room it has joined
  inbox,      \* Socket.IO: socket -> events emitted to it, in order
  wsPc,               \* websocket_endpoint of each connection: its position
  wsClient,           \* the client_id each connection was opened with
  active_connections, \* WebSocketManager: client_id -> connection
  analysis_tasks,     \* WebSocketManager: client_id -> task (0 = no entry)
  tasks,              \* the analysis tasks (sessions) created so far
  pyCache,            \* result cache of the analysis service: video -> entry
  emitLog,    \* Socket.IO: the emit calls made so far, in order
  batch,      \* POST /batch handler: videos, per-item position, results
  svcCache,   \* cacheService of the batch route: key -> entry or NoEntry
  pyWs,       \* /ws/analysis/{video_id} endpoint of each connection
  svc,        \* AnalysisService.analyze_video call and the service's cache
  repo,       \* AnalysisRepository: redis keys and the last cache operation
  ext,        \* extension background service: analysisCache and last answer
  overBudget, \* analyses that were in processing for longer than the budget
  contentScript, \* InfoGuardContentScript: videoId, result, requests in flight
  content,    \* InfoGuardContent: isAnalyzing and the position of its polling
  nodeWs,     \* WebSocket of the node server: handlers and the replies sent
  wsQueue     \* per connection: the cancel_analysis message not yet read

vars == <<analyses, jobs, cache, now, req, connected, rooms, inbox,
          wsPc, wsClient, active_connections, analysis_tasks, tasks, pyCache,
          emitLog, batch, svcCache, pyWs, svc, repo, ext, overBudget,
          contentScript, content, nodeWs, wsQueue>>

uiVars == <<contentScript, content, nodeWs, wsQueue>>

laterVars == <<svc, repo, ext, overBudget, uiVars>>

moreVars == <<emitLog, batch, svcCache, pyWs>>

wsVars == <<wsPc, wsClient, active_connections, analysis_tasks, tasks, pyCache>>

httpVars == <<analyses, jobs, cache, now, req>>

ioVars == <<connected, rooms, inbox>>

\* ---------------------------------------------------------------- helpers
IsURL(u) == u \in Urls

JSONStringify(v) == <<"json", v>>

JSONParse(s) == s[2]

\* redis.get: the stored string, or null once the key's ttl has elapsed
RedisGet(key) ==
  IF cache[key] # NoEntry /\ now < cache[key].expiresAt
    THEN cache[key].value
    ELSE NoEntry

\* redis.setEx(key, ttl, value)
RedisSetEx(key, ttl, value) ==
  [cache EXCEPT ![key] = [value |-> value, expiresAt |-> now + ttl]]

\* prisma.analysis.update({ where: { id }, data })
PrismaUpdate(id, data) ==
  [analyses EXCEPT ![id] =
     [f \in DOMAIN analyses[id] |->
        IF f \in DOMAIN data THEN data[f] ELSE analyses[id][f]]]

NewAnalysis(url) ==
  [videoUrl |-> url, status |-> "pending", progress |-> PROGRESS_PENDING,
   result |-> NoResult, error |-> NoError]

NewJob == [pc |-> "timer", result |-> NoResult,
           calls |-> [update1 |-> 0, update2 |-> 0, setEx |-> 0],
           thrownBy |-> "none"]

\* POST /batch handler before a request has arrived
NewBatch == [pc |-> "idle", videos |-> <<>>, max_concurrent |-> 1,
             items |-> <<>>, results |-> <<>>, resp |-> NoResp]

\* websocket_endpoint before the connection is accepted
NewPyWs == [pc |-> "closed", video |-> "none", out |-> <<>>, yielded |-> <<>>]

\* cache keys: `analysis:${videoId}:latest` of the repository, plain keys of
\* RedisService callers
LatestKey(videoId) == <<"analysis", videoId, "latest">>

ServiceKeys == {<<"k1">>}

RedisKeys == {LatestKey(v) : v \in Videos} \cup ServiceKeys

\* AnalysisRepository and RedisService before their first call
NewRepo == [redis |-> [k \in RedisKeys |-> NoEntry],
            db |-> [v \in Videos |-> NoEntry],
            lastOp |-> [kind |-> "none"]]

\* InfoGuardBackgroundService after its constructor
NewExt == [analysisCache |-> [v \in Videos |-> NoEntry], now |-> 0,
           pc |-> "idle", video |-> "none", result |-> NoResult,
           lastAnswer |-> [kind |-> "none"]]

\* AnalysisService before its first analyze_video call
NewSvc == [pc |-> "idle", calls |-> 0, video |-> "none", transcript |-> FALSE,
           sentiment |-> NoResult, bias |-> NoResult, credibility |-> NoResult,
           result |-> NoResult, returned |-> NoResult,
           invoked |-> <<>>, failedAt |-> "none",
           cache |-> [v \in Videos |-> NoEntry]]

\* InfoGuardContentScript after init() on a watch page
NewContentScript == [videoId |-> "v1", analysisResult |-> NoResult,
                     displayed |-> NoResult, isAnalyzing |-> FALSE,
                     inFlight |-> {}, sent |-> 0]

\* InfoGuardContent after init()
NewContent == [isAnalyzing |-> FALSE, pc |-> "idle", attempts |-> 0, clicks |-> 0]

\* a WebSocket the node server has just accepted
NewNodeWs == [open |-> TRUE, received |-> 0, handlers |-> <<>>, sent |-> <<>>]

\* ------------------------------------------------------------------- Init
Init ==
  /\ analyses = <<>>
  /\ jobs = <<>>
  /\ cache = [u \in Urls |-> NoEntry]
  /\ now = 0
  /\ req = [r \in 1..MaxReq |-> [pc |-> "idle", url |-> BadUrl, resp |-> NoResp,
                               stages |-> NoStages]]
  /\ connected = {}
  /\ rooms = [s \in Sockets |-> {}]
  /\ inbox = [s \in Sockets |-> <<>>]
  /\ wsPc = [k \in Conns |-> "closed"]
  /\ wsClient = [k \in Conns |-> NoConn]
  /\ active_connections = [c \in Clients |-> NoConn]
  /\ analysis_tasks = [c \in Clients |-> 0]
  /\ tasks = <<>>
  /\ pyCache = [v \in Videos |-> NoEntry]
  /\ emitLog = <<>>
  /\ batch = NewBatch
  /\ svcCache = [v \in BatchVideos |-> NoEntry]
  /\ pyWs = [k \in PyConns |-> NewPyWs]
  /\ svc = NewSvc
  /\ repo = NewRepo
  /\ ext = NewExt
  /\ overBudget = {}
  /\ contentScript = NewContentScript
  /\ content = NewContent
  /\ nodeWs = NewNodeWs
  /\ wsQueue = [k \in Conns |-> NoMessage]

\* ------------------------------------------- POST /analyze (lines 10-115)
\* request arrives; express-validator rejects a non-URL with 400
\* the body may carry fields the validators do not name, such as
\* requested_stages
ReceiveBody(r, url, requested_stages) ==
  /\ req[r].pc = "idle"
  /\ \A q \in 1..(r - 1) : req[q].pc # "idle"
  /\ req' = [req EXCEPT ![r] =
       IF IsURL(url)
         THEN [pc |-> "cacheGet", url |-> url, resp |-> NoResp,
               stages |-> requested_stages]
         ELSE [pc |-> "done", url |-> url,
               resp |-> [sent |-> TRUE, code |-> 400],
               stages |-> requested_stages]]
  /\ UNCHANGED <<analyses, jobs, cache, now, ioVars, wsVars, moreVars, laterVars>>

Receive(r, url) == ReceiveBody(r, url, NoStages)

\* variant: the cached entry is ignored and a new analysis is always created
CacheGetIgnoringHit(r, ok) ==
  /\ req[r].pc = "cacheGet"
  /\ req' = [req EXCEPT ![r] =
       IF ~ok
         THEN [@ EXCEPT !.pc = "done", !.resp = [sent |-> TRUE, code |-> 500]]
         ELSE [@ EXCEPT !.pc = "create"]]
  /\ UNCHANGED <<analyses, jobs, cache, now, ioVars, wsVars, moreVars, laterVars>>

\* await redis.get(cacheKey): hit -> respond completed/cached; miss -> go on;
\* a redis error is caught by the handler's catch -> 500
CacheGet(r, ok) ==
  /\ req[r].pc = "cacheGet"
  /\ LET cachedResult == RedisGet(req[r].url) IN
     req' = [req EXCEPT ![r] =
       IF ~ok
         THEN [@ EXCEPT !.pc = "done", !.resp = [sent |-> TRUE, code |-> 500]]
         ELSE IF cachedResult # NoEntry
           THEN [@ EXCEPT !.pc = "done",
                 !.resp = [sent |-> TRUE, code |-> 200,
                           analysisId |-> JSONParse(cachedResult).analysisId,
                           status |-> "completed",
                           result |-> JSONParse(cachedResult).result,
                           cached |-> TRUE]]
           ELSE [@ EXCEPT !.pc = "create"]]
  /\ UNCHANGED <<analyses, jobs, cache, now, ioVars, wsVars, moreVars, laterVars>>

\* await prisma.analysis.create; then setTimeout(job) and the 202 response
Create(r, ok) ==
  /\ req[r].pc = "create"
  /\ IF ok
       THEN /\ analyses' = Append(analyses, NewAnalysis(req[r].url))
            /\ jobs' = Append(jobs, NewJob)
            /\ req' = [req EXCEPT ![r] = [@ EXCEPT !.pc = "done",
                 !.resp = [sent |-> TRUE, code |-> 202,
                           analysisId |-> Len(analyses) + 1,
                           status |-> "pending", cached |-> FALSE]]]
       ELSE /\ req' = [req EXCEPT ![r] = [@ EXCEPT !.pc = "done",
                 !.resp = [sent |-> TRUE, code |-> 500]]]
            /\ UNCHANGED <<analyses, jobs>>
  /\ UNCHANGED <<cache, now, ioVars, wsVars, moreVars, laterVars>>

\* ------------------------------------- background job (lines 58-101)
JobThrow(id, step) ==
  [jobs EXCEPT ![id] = [@ EXCEPT !.pc = "catch", !.thrownBy = step,
                                 !.calls[step] = @ + 1]]

JobAdvance(id, step, pc) ==
  [jobs EXCEPT ![id] = [@ EXCEPT !.pc = pc, !.calls[step] = @ + 1]]

\* timer fires: update { progress: 50, status: 'processing' }
JobProcessing(id, ok) ==
  /\ id \in DOMAIN jobs
  /\ jobs[id].pc = "timer"
  /\ IF ok
       THEN /\ analyses' = PrismaUpdate(id,
                 [progress |-> PROGRESS_PROCESSING, status |-> "processing"])
            /\ jobs' = JobAdvance(id, "update1", "processing")
       ELSE /\ jobs' = JobThrow(id, "update1")
            /\ UNCHANGED analyses
  /\ UNCHANGED <<cache, now, req, ioVars, wsVars, moreVars, laterVars>>

\* result drawn, then update { progress: 100, status: 'completed', result }
JobComplete(id, result, ok) ==
  /\ id \in DOMAIN jobs
  /\ jobs[id].pc = "processing"
  /\ IF ok
       THEN /\ analyses' = PrismaUpdate(id,
                 [progress |-> PROGRESS_COMPLETED, status |-> "completed",
                  result |-> result])
            /\ jobs' = [JobAdvance(id, "update2", "completed")
                          EXCEPT ![id].result = result]
       ELSE /\ jobs' = [JobThrow(id, "update2") EXCEPT ![id].result = result]
            /\ UNCHANGED analyses
  /\ UNCHANGED <<cache, now, req, ioVars, wsVars, moreVars, laterVars>>

\* variant: the payload takes the result of the record as it was created
CachePayloadFromCreatedRecord(id) == [analysisId |-> id, result |-> NoResult]

CachePayload(id) == [analysisId |-> id, result |-> jobs[id].result]

\* redis.setEx(cacheKey, 3600, JSON.stringify({ analysisId, result }))
JobCache(id, ok) ==
  /\ id \in DOMAIN jobs
  /\ jobs[id].pc = "completed"
  /\ IF ok
       THEN /\ cache' = RedisSetEx(analyses[id].videoUrl, CACHE_TTL,
                                   JSONStringify(CachePayload(id)))
            /\ jobs' = JobAdvance(id, "setEx", "done")
       ELSE /\ jobs' = JobThrow(id, "setEx")
            /\ UNCHANGED cache
  /\ UNCHANGED <<analyses, now, req, ioVars, wsVars, moreVars, laterVars>>

\* catch (error): update { status: 'failed', error: error.message };
\* when that update throws too the rejection is unhandled and nothing changes
JobCatch(id, ok) ==
  /\ id \in DOMAIN jobs
  /\ jobs[id].pc = "catch"
  /\ IF ok
       THEN /\ analyses' = PrismaUpdate(id,
                 [status |-> "failed",
                  error |-> IF jobs[id].thrownBy = "setEx"
                              THEN "redis error" ELSE "database error"])
            /\ jobs' = [jobs EXCEPT ![id].pc = "failed"]
       ELSE /\ jobs' = [jobs EXCEPT ![id].pc = "crashed"]
            /\ UNCHANGED analyses
  /\ UNCHANGED <<cache, now, req, ioVars, wsVars, moreVars, laterVars>>

\* ------------------------------------------------ GET /status/:analysisId
GetStatus(id) ==
  IF id \in DOMAIN analyses
    THEN [code |-> 200, analysisId |-> id, status |-> analyses[id].status,
          progress |-> analyses[id].progress, result |-> analyses[id].result,
          error |-> analyses[id].error]
    ELSE [code |-> 404]

\* ------------------------------------------------------------------ clock
Tick ==
  /\ now + TickSeconds <= MaxNow
  /\ now' = now + TickSeconds
  /\ UNCHANGED <<analyses, jobs, cache, req, ioVars, wsVars, moreVars, laterVars>>

\* ------------------------------ Socket.IO rooms (routes/user.js 199-218)
\* io.on('connection')
Connect(s) ==
  /\ s \notin connected
  /\ connected' = connected \cup {s}
  /\ UNCHANGED <<httpVars, rooms, inbox, wsVars, moreVars, laterVars>>

\* socket.on('subscribe_analysis'): socket.join(`analysis_${analysisId}`)
SubscribeAnalysis(s, analysisId) ==
  /\ s \in connected
  /\ analysisId \notin rooms[s]
  /\ rooms' = [rooms EXCEPT ![s] = @ \cup {analysisId}]
  /\ UNCHANGED <<httpVars, connected, inbox, wsVars, moreVars, laterVars>>

\* socket.on('unsubscribe_analysis'): socket.leave(`analysis_${analysisId}`)
UnsubscribeAnalysis(s, analysisId) ==
  /\ s \in connected
  /\ analysisId \in rooms[s]
  /\ rooms' = [rooms EXCEPT ![s] = @ \ {analysisId}]
  /\ UNCHANGED <<httpVars, connected, inbox, wsVars, moreVars, laterVars>>

\* socket.on('disconnect'): Socket.IO has removed the socket from its rooms
Disconnect(s) ==
  /\ s \in connected
  /\ connected' = connected \ {s}
  /\ rooms' = [rooms EXCEPT ![s] = {}]
  /\ UNCHANGED <<httpVars, inbox, wsVars, moreVars, laterVars>>

Next ==
  \/ \E r \in 1..MaxReq, url \in Urls \cup {BadUrl} : Receive(r, url)
  \/ \E r \in 1..MaxReq, ok \in BOOLEAN : CacheGet(r, ok)
  \/ \E r \in 1..MaxReq, ok \in BOOLEAN : Create(r, ok)
  \/ \E id \in 1..MaxReq, ok \in BOOLEAN : JobProcessing(id, ok)
  \/ \E id \in 1..MaxReq, result \in ResultSamples, ok \in BOOLEAN :
       JobComplete(id, result, ok)
  \/ \E id \in 1..MaxReq, ok \in BOOLEAN : JobCache(id, ok)
  \/ \E id \in 1..MaxReq, ok \in BOOLEAN : JobCatch(id, ok)
  \/ Tick

Spec == Init /\ [][Next]_vars

\* POST /analyze alone, with request bodies that carry requested_stages
StageInputs ==
  {[present |-> TRUE, value |-> v] :
     v \in {<<>>, <<"sentiment", "bias">>, <<"astrology">>}}

NextAnalyze ==
  \/ \E r \in 1..MaxReq, url \in Urls \cup {BadUrl}, st \in StageInputs :
       ReceiveBody(r, url, st)
  \/ \E r \in 1..MaxReq, ok \in BOOLEAN : CacheGet(r, ok)
  \/ \E r \in 1..MaxReq, ok \in BOOLEAN : Create(r, ok)

SpecAnalyze == Init /\ [][NextAnalyze]_vars

\* the routes and the job with a clock that notes which analyses have been
\* in processing for longer than MAX_PROCESSING_TIME; no code reads the
\* constant, so nothing else happens when the budget runs out
TickPastBudget ==
  /\ now + TickSeconds <= MaxNow
  /\ now' = now + TickSeconds
  /\ overBudget' = overBudget \cup
       {id \in DOMAIN analyses :
          analyses[id].status = "processing"
            /\ TickSeconds * 1000 > MAX_PROCESSING_TIME}
  /\ UNCHANGED <<analyses, jobs, cache, req, ioVars, wsVars, moreVars,
                 svc, repo, ext, uiVars>>

NextBudget ==
  \/ \E r \in 1..MaxReq, url \in Urls \cup {BadUrl} : Receive(r, url)
  \/ \E r \in 1..MaxReq, ok \in BOOLEAN : CacheGet(r, ok)
  \/ \E r \in 1..MaxReq, ok \in BOOLEAN : Create(r, ok)
  \/ \E id \in 1..MaxReq, ok \in BOOLEAN : JobProcessing(id, ok)
  \/ \E id \in 1..MaxReq, result \in ResultSamples, ok \in BOOLEAN :
       JobComplete(id, result, ok)
  \/ \E id \in 1..MaxReq, ok \in BOOLEAN : JobCache(id, ok)
  \/ \E id \in 1..MaxReq, ok \in BOOLEAN : JobCatch(id, ok)
  \/ TickPastBudget

SpecBudget == Init /\ [][NextBudget]_vars

\* the HTTP routes together with the Socket.IO subscriptions of user.js
NextPush ==
  \/ Next
  \/ \E s \in Sockets : Connect(s)
  \/ \E s \in Sockets, analysisId \in 1..MaxReq : SubscribeAnalysis(s, analysisId)
  \/ \E s \in Sockets, analysisId \in 1..MaxReq : UnsubscribeAnalysis(s, analysisId)
  \/ \E s \in Sockets : Disconnect(s)

SpecPush == Init /\ [][NextPush]_vars

TypeOK ==
  /\ Len(analyses) = Len(jobs)
  /\ Len(analyses) <= MaxReq
  /\ now \in 0..MaxNow

\* ------------------------------------------------------------------------
\* WebSocket analysis (feature/06: WebSocketManager, websocket_endpoint,
\* handle_analysis_request).  The task body, analyze_with_progress, and the
\* session rules it follows are taken from the specification (4.1, 4.2).
\* ------------------------------------------------------------------------
NewTask(k, c, video, stages) ==
  [conn |-> k, client |-> c, video |-> video, stages |-> stages,
   state |-> "Pending", done |-> 0, inflight |-> FALSE, attempts |-> 0,
   failedStage |-> "none", cancelAccepted |-> FALSE, cancelledIn |-> "none",
   lateReturn |-> FALSE]

\* cancel(session): Pending/Running -> Cancelled; a terminal session is left
CancelTask(ts, t) ==
  IF ts[t].state \in {"Pending", "Running"}
    THEN [ts EXCEPT ![t] = [@ EXCEPT !.state = "Cancelled",
                                     !.cancelAccepted = TRUE,
                                     !.cancelledIn = ts[t].state]]
    ELSE ts

\* variant: a slot picks the session up whether or not it was cancelled
TaskPickupIgnoringCancel(t) ==
  /\ t \in DOMAIN tasks
  /\ tasks[t].state = "Pending" \/ tasks[t].cancelledIn = "Pending"
  /\ tasks[t].state # "Running"
  /\ tasks' = [tasks EXCEPT ![t].state = "Running"]
  /\ UNCHANGED <<httpVars, ioVars, moreVars, laterVars, wsPc, wsClient, active_connections,
                 analysis_tasks, pyCache>>

\* Pending -> Running on pickup by an execution slot
TaskPickup(t) ==
  /\ t \in DOMAIN tasks
  /\ tasks[t].state = "Pending"
  /\ tasks' = [tasks EXCEPT ![t].state = "Running"]
  /\ UNCHANGED <<httpVars, ioVars, moreVars, laterVars, wsPc, wsClient, active_connections,
                 analysis_tasks, pyCache>>

\* variant: the stage loop does not look at the session state
StageDispatchIgnoringCancel(t) ==
  /\ t \in DOMAIN tasks
  /\ tasks[t].state \in {"Running", "Cancelled"}
  /\ ~tasks[t].inflight
  /\ tasks[t].done < Len(tasks[t].stages)
  /\ tasks' = [tasks EXCEPT ![t].inflight = TRUE]
  /\ UNCHANGED <<httpVars, ioVars, moreVars, laterVars, wsPc, wsClient, active_connections,
                 analysis_tasks, pyCache>>

\* the next stage's scorer is invoked; none is started once cancelled
StageDispatch(t) ==
  /\ t \in DOMAIN tasks
  /\ tasks[t].state = "Running"
  /\ ~tasks[t].inflight
  /\ tasks[t].done < Len(tasks[t].stages)
  /\ tasks' = [tasks EXCEPT ![t].inflight = TRUE]
  /\ UNCHANGED <<httpVars, ioVars, moreVars, laterVars, wsPc, wsClient, active_connections,
                 analysis_tasks, pyCache>>

\* the scorer call returns: result recorded, or retried once, or the session
\* fails; a call that returns after the cancel is discarded
StageReturn(t, ok) ==
  /\ t \in DOMAIN tasks
  /\ tasks[t].inflight
  /\ tasks' = [tasks EXCEPT ![t] =
       IF @.state # "Running"
         THEN [@ EXCEPT !.inflight = FALSE, !.lateReturn = TRUE]
         ELSE IF ok
           THEN [@ EXCEPT !.inflight = FALSE, !.done = @ + 1, !.attempts = 0]
           ELSE IF @.attempts = 0
             THEN [@ EXCEPT !.inflight = FALSE, !.attempts = 1]
             ELSE [@ EXCEPT !.inflight = FALSE, !.state = "Failed",
                            !.failedStage = tasks[t].stages[tasks[t].done + 1]]]
  /\ UNCHANGED <<httpVars, ioVars, moreVars, laterVars, wsPc, wsClient, active_connections,
                 analysis_tasks, pyCache>>

\* variant: the completion path does not look at the session state
SessionCompleteIgnoringCancel(t) ==
  /\ t \in DOMAIN tasks
  /\ tasks[t].state \in {"Running", "Cancelled"}
  /\ ~tasks[t].inflight
  /\ tasks[t].done = Len(tasks[t].stages)
  /\ pyCache[tasks[t].video] # [session |-> t, stages |-> tasks[t].stages]
  /\ tasks' = [tasks EXCEPT ![t].state =
                 IF @ = "Running" THEN "Completed" ELSE @]
  /\ pyCache' = [pyCache EXCEPT ![tasks[t].video] =
                   [session |-> t, stages |-> tasks[t].stages]]
  /\ UNCHANGED <<httpVars, ioVars, moreVars, laterVars, wsPc, wsClient, active_connections,
                 analysis_tasks>>

\* all stages recorded: Completed, and the aggregate is written to the cache
SessionComplete(t) ==
  /\ t \in DOMAIN tasks
  /\ tasks[t].state = "Running"
  /\ ~tasks[t].inflight
  /\ tasks[t].done = Len(tasks[t].stages)
  /\ tasks' = [tasks EXCEPT ![t].state = "Completed"]
  /\ pyCache' = [pyCache EXCEPT ![tasks[t].video] =
                   [session |-> t, stages |-> tasks[t].stages]]
  /\ UNCHANGED <<httpVars, ioVars, moreVars, laterVars, wsPc, wsClient, active_connections,
                 analysis_tasks>>

\* manager.connect(websocket, client_id)
WsConnect(k, c) ==
  /\ wsPc[k] = "closed"
  /\ wsPc' = [wsPc EXCEPT ![k] = "receive"]
  /\ wsClient' = [wsClient EXCEPT ![k] = c]
  /\ active_connections' = [active_connections EXCEPT ![c] = k]
  /\ UNCHANGED <<httpVars, ioVars, moreVars, laterVars, analysis_tasks, tasks, pyCache>>

\* "start_analysis": handle_analysis_request creates the task, registers it
\* under the client id and awaits it
WsStartAnalysis(k, video, stages) ==
  /\ wsPc[k] = "receive"
  /\ wsQueue[k] = NoMessage
  /\ Len(tasks) < MaxTasks
  /\ tasks' = Append(tasks, NewTask(k, wsClient[k], video, stages))
  /\ analysis_tasks' = [analysis_tasks EXCEPT ![wsClient[k]] = Len(tasks) + 1]
  /\ wsPc' = [wsPc EXCEPT ![k] = "awaiting"]
  /\ UNCHANGED <<httpVars, ioVars, moreVars, laterVars, wsClient, active_connections, pyCache>>

\* await analysis_task returns once the task has ended
WsJoin(k) ==
  /\ wsPc[k] = "awaiting"
  /\ \A t \in DOMAIN tasks :
       tasks[t].conn = k
         => /\ tasks[t].state \in {"Completed", "Failed", "Cancelled"}
            /\ ~tasks[t].inflight
  /\ wsPc' = [wsPc EXCEPT ![k] = "receive"]
  /\ UNCHANGED <<httpVars, ioVars, moreVars, laterVars, wsClient, active_connections,
                 analysis_tasks, tasks, pyCache>>

\* WebSocketDisconnect at receive_text: manager.disconnect(client_id) drops
\* the client's connection entry and cancels and drops its task entry
WsDisconnect(k) ==
  /\ wsPc[k] = "receive"
  /\ wsPc' = [wsPc EXCEPT ![k] = "gone"]
  /\ active_connections' = [active_connections EXCEPT ![wsClient[k]] = NoConn]
  /\ IF analysis_tasks[wsClient[k]] # 0
       THEN /\ tasks' = CancelTask(tasks, analysis_tasks[wsClient[k]])
            /\ analysis_tasks' = [analysis_tasks EXCEPT ![wsClient[k]] = 0]
       ELSE UNCHANGED <<tasks, analysis_tasks>>
  /\ wsQueue' = [wsQueue EXCEPT ![k] = NoMessage]
  /\ UNCHANGED <<httpVars, ioVars, moreVars, svc, repo, ext, overBudget,
                 contentScript, content, nodeWs, wsClient, pyCache>>

\* the task the manager holds for the client of k, while it has not ended
RunningTaskOf(k) ==
  LET t == analysis_tasks[wsClient[k]] IN
  IF t # 0 /\ tasks[t].state \in {"Pending", "Running"} THEN t ELSE 0

WsQueueOthers == <<httpVars, ioVars, wsVars, moreVars, svc, repo, ext, overBudget,
                   contentScript, content, nodeWs>>

\* the client sends { type: "cancel_analysis" } on its open connection while
\* its task has not ended; the message waits until the endpoint calls
\* receive_text() again
WsSendCancel(k) ==
  /\ wsPc[k] \in {"receive", "awaiting"}
  /\ RunningTaskOf(k) # 0
  /\ wsQueue[k] = NoMessage
  /\ wsQueue' = [wsQueue EXCEPT ![k] =
                   [type |-> "cancel_analysis", during |-> RunningTaskOf(k)]]
  /\ UNCHANGED WsQueueOthers

\* "cancel_analysis" read by receive_text(): handle_cancel_analysis(client_id)
\* cancels the task registered under the client id
WsCancelAnalysis(k) ==
  /\ wsPc[k] = "receive"
  /\ wsQueue[k] # NoMessage
  /\ wsQueue' = [wsQueue EXCEPT ![k] = NoMessage]
  /\ tasks' = IF analysis_tasks[wsClient[k]] # 0
                THEN CancelTask(tasks, analysis_tasks[wsClient[k]])
                ELSE tasks
  /\ UNCHANGED <<httpVars, ioVars, moreVars, svc, repo, ext, overBudget,
                 contentScript, content, nodeWs, wsPc, wsClient,
                 active_connections, analysis_tasks, pyCache>>

NextWs ==
  \/ \E k \in Conns, c \in Clients : WsConnect(k, c)
  \/ \E k \in Conns, v \in Videos, st \in StageLists : WsStartAnalysis(k, v, st)
  \/ \E k \in Conns : WsJoin(k)
  \/ \E k \in Conns : WsDisconnect(k)
  \/ \E t \in 1..MaxTasks : TaskPickup(t)
  \/ \E t \in 1..MaxTasks : StageDispatch(t)
  \/ \E t \in 1..MaxTasks, ok \in BOOLEAN : StageReturn(t, ok)
  \/ \E t \in 1..MaxTasks : SessionComplete(t)

SpecWs == Init /\ [][NextWs]_vars

\* the same endpoint with the cancel_analysis messages of one client, which
\* may hold several connections, analysing one video
NextWsCancel ==
  \/ \E k \in Conns : WsConnect(k, "c1")
  \/ \E k \in Conns, st \in StageLists : WsStartAnalysis(k, "v1", st)
  \/ \E k \in Conns : WsJoin(k)
  \/ \E k \in Conns : WsDisconnect(k)
  \/ \E k \in Conns : WsSendCancel(k)
  \/ \E k \in Conns : WsCancelAnalysis(k)
  \/ \E t \in 1..MaxTasks : TaskPickup(t)
  \/ \E t \in 1..MaxTasks : StageDispatch(t)
  \/ \E t \in 1..MaxTasks, ok \in BOOLEAN : StageReturn(t, ok)
  \/ \E t \in 1..MaxTasks : SessionComplete(t)

SpecWsCancel == Init /\ [][NextWsCancel]_vars

\* ------------------------------------------------------------------------
\* POST /api/v1/analysis/batch (part_021 lines 121-200)
\* ------------------------------------------------------------------------
maxAttempts == 60    \* status checks before monitorAnalysisProgress gives up
MAX_BATCH_VIDEOS == 10

\* request bodies: the videos array and the max_concurrent field of the
\* documented request (the route does not read max_concurrent)
BatchInputs ==
  { <<>>,
    <<"v1">>,
    <<"v1", "v2", "v1">>,
    <<"v1", NullItem, "v2">>,
    <<"v1", "v2", "v1", "v2", "v1">>,
    [i \in 1..(MAX_BATCH_VIDEOS + 1) |-> "v1"] }

MaxConcurrentInputs == {1, 3}

BatchActive == {"cacheGet", "fetch", "analyze", "cacheSet"}

\* cacheService.get(`analysis:${videoId || videoUrl}`)
SvcCacheGet(v) ==
  IF svcCache[v] # NoEntry /\ now < svcCache[v].expiresAt
    THEN svcCache[v].value
    ELSE NoEntry

\* analysisService.analyzeVideo(videoData)
AnalysisResultOf(v) == [videoId |-> v, analysed |-> TRUE]

\* variant: the loop starts item i and the one after it without waiting
BatchLoopTwoAtOnce(b, i) ==
  IF i > Len(b.videos)
    THEN [b EXCEPT !.pc = "done",
                   !.resp = [sent |-> TRUE, code |-> 200, success |-> TRUE,
                             data |-> b.results]]
    ELSE [b EXCEPT !.items = [j \in DOMAIN b.items |->
                     IF j \in {i, i + 1} /\ b.items[j] = "queued"
                       THEN "cacheGet" ELSE b.items[j]]]

\* the for loop arrives at item i: past the end it responds; a null item
\* throws in the try and again in its catch (video.videoId), which reaches
\* the outer catch and next(error); otherwise the item's cache read starts
BatchLoop(b, i) ==
  IF i > Len(b.videos)
    THEN [b EXCEPT !.pc = "done",
                   !.resp = [sent |-> TRUE, code |-> 200, success |-> TRUE,
                             data |-> b.results]]
    ELSE IF b.videos[i] = NullItem
      THEN [b EXCEPT !.pc = "done", !.items[i] = "threw",
                     !.resp = [sent |-> TRUE, code |-> 500]]
      ELSE [b EXCEPT !.items[i] = "cacheGet"]

\* results.push(entry) for item i, then the next iteration
BatchFinish(b, i, entry) ==
  BatchLoop([b EXCEPT !.items[i] = entry.status,
                      !.results = Append(@, entry)], i + 1)

FailedEntry(v) == [videoId |-> v, status |-> "failed", error |-> "error"]

CompletedEntry(v, result, cached) ==
  [videoId |-> v, status |-> "completed", result |-> result, cached |-> cached]

\* request arrives: 400 for an empty array or more than 10 videos, else the
\* loop starts
BatchReceive(videos, mc) ==
  /\ batch.pc = "idle"
  /\ batch' =
       IF Len(videos) = 0
         THEN [batch EXCEPT !.pc = "done", !.videos = videos,
                 !.resp = [sent |-> TRUE, code |-> 400, error |-> "Invalid request"]]
         ELSE IF Len(videos) > MAX_BATCH_VIDEOS
           THEN [batch EXCEPT !.pc = "done", !.videos = videos,
                   !.items = [i \in DOMAIN videos |-> "queued"],
                   !.resp = [sent |-> TRUE, code |-> 400, error |-> "Too many videos"]]
           ELSE BatchLoop([batch EXCEPT !.pc = "running", !.videos = videos,
                             !.max_concurrent = mc,
                             !.items = [i \in DOMAIN videos |-> "queued"]], 1)
  /\ UNCHANGED <<httpVars, ioVars, wsVars, laterVars, emitLog, svcCache, pyWs>>

\* await cacheService.get(cacheKey): hit -> completed/cached and continue
BatchCacheGet(i, ok) ==
  /\ batch.pc = "running"
  /\ i \in DOMAIN batch.items
  /\ batch.items[i] = "cacheGet"
  /\ LET v == batch.videos[i] IN
     batch' =
       IF ~ok THEN BatchFinish(batch, i, FailedEntry(v))
       ELSE IF SvcCacheGet(v) # NoEntry
         THEN BatchFinish(batch, i, CompletedEntry(v, SvcCacheGet(v), TRUE))
         ELSE [batch EXCEPT !.items[i] = "fetch"]
  /\ UNCHANGED <<httpVars, ioVars, wsVars, laterVars, emitLog, svcCache, pyWs>>

\* await youtubeService.getVideoData(videoUrl || videoId)
BatchFetch(i, ok) ==
  /\ batch.pc = "running"
  /\ i \in DOMAIN batch.items
  /\ batch.items[i] = "fetch"
  /\ batch' = IF ok THEN [batch EXCEPT !.items[i] = "analyze"]
                    ELSE BatchFinish(batch, i, FailedEntry(batch.videos[i]))
  /\ UNCHANGED <<httpVars, ioVars, wsVars, laterVars, emitLog, svcCache, pyWs>>

\* await analysisService.analyzeVideo(videoData)
BatchAnalyze(i, ok) ==
  /\ batch.pc = "running"
  /\ i \in DOMAIN batch.items
  /\ batch.items[i] = "analyze"
  /\ batch' = IF ok THEN [batch EXCEPT !.items[i] = "cacheSet"]
                    ELSE BatchFinish(batch, i, FailedEntry(batch.videos[i]))
  /\ UNCHANGED <<httpVars, ioVars, wsVars, laterVars, emitLog, svcCache, pyWs>>

\* await cacheService.set(cacheKey, analysisResult, 3600), then results.push
BatchCacheSet(i, ok) ==
  /\ batch.pc = "running"
  /\ i \in DOMAIN batch.items
  /\ batch.items[i] = "cacheSet"
  /\ LET v == batch.videos[i] IN
     IF ok
       THEN /\ svcCache' = [svcCache EXCEPT ![v] =
                  [value |-> AnalysisResultOf(v), expiresAt |-> now + CACHE_TTL]]
            /\ batch' = BatchFinish(batch, i,
                          CompletedEntry(v, AnalysisResultOf(v), FALSE))
       ELSE /\ batch' = BatchFinish(batch, i, FailedEntry(v))
            /\ UNCHANGED svcCache
  /\ UNCHANGED <<httpVars, ioVars, wsVars, laterVars, emitLog, pyWs>>

BatchTick ==
  /\ now + TickSeconds <= MaxNow
  /\ now' = now + TickSeconds
  /\ UNCHANGED <<analyses, jobs, cache, req, ioVars, wsVars, moreVars, laterVars>>

NextBatch ==
  \/ \E videos \in BatchInputs, mc \in MaxConcurrentInputs : BatchReceive(videos, mc)
  \/ \E i \in 1..MAX_BATCH_VIDEOS, ok \in BOOLEAN : BatchCacheGet(i, ok)
  \/ \E i \in 1..MAX_BATCH_VIDEOS, ok \in BOOLEAN : BatchFetch(i, ok)
  \/ \E i \in 1..MAX_BATCH_VIDEOS, ok \in BOOLEAN : BatchAnalyze(i, ok)
  \/ \E i \in 1..MAX_BATCH_VIDEOS, ok \in BOOLEAN : BatchCacheSet(i, ok)
  \/ BatchTick

SpecBatch == Init /\ [][NextBatch]_vars

\* ------------------------------------------------------------------------
\* /ws/analysis/{video_id} (part_000: websocket_endpoint lines 323-362,
\* AnalysisService.analyze_video_realtime lines 436-464)
\* ------------------------------------------------------------------------
\* what analyze_video_realtime yields, in order
RealtimeSteps ==
  << [step |-> "started", progress |-> 0],
     [step |-> "collecting_data", progress |-> 20],
     [step |-> "sentiment_analysis", progress |-> 40],
     [step |-> "bias_detection", progress |-> 60],
     [step |-> "credibility_analysis", progress |-> 80],
     [step |-> "completed", progress |-> 100] >>

\* the generator awaits a service call before each yield after the second
AwaitBeforeYield(n) == n > 2

StartedMsg(v) == [type |-> "analysis_started", video_id |-> v]

ProgressMsg(v, progress) ==
  [type |-> "analysis_progress", video_id |-> v, progress |-> progress]

CompletedMsg(v) ==
  [type |-> "analysis_completed", video_id |-> v, result |-> [video_id |-> v]]

ErrorMsg == [type |-> "error", message |-> "error"]

\* await websocket.accept()
PyAccept(k, v) ==
  /\ pyWs[k].pc = "closed"
  /\ pyWs' = [pyWs EXCEPT ![k] = [@ EXCEPT !.pc = "accepted", !.video = v]]
  /\ UNCHANGED <<httpVars, ioVars, wsVars, laterVars, emitLog, batch, svcCache>>

\* send analysis_started; a closed socket raises WebSocketDisconnect
PySendStarted(k, up) ==
  /\ pyWs[k].pc = "accepted"
  /\ pyWs' = [pyWs EXCEPT ![k] =
       IF up THEN [@ EXCEPT !.pc = "loop", !.out = Append(@, StartedMsg(pyWs[k].video))]
             ELSE [@ EXCEPT !.pc = "done"]]
  /\ UNCHANGED <<httpVars, ioVars, wsVars, laterVars, emitLog, batch, svcCache>>

\* async for: the generator runs to its next yield, raises, or is exhausted
PyGenNext(k, ok) ==
  /\ pyWs[k].pc = "loop"
  /\ LET n == Len(pyWs[k].yielded) + 1 IN
     pyWs' = [pyWs EXCEPT ![k] =
       IF n > Len(RealtimeSteps) THEN [@ EXCEPT !.pc = "result"]
       ELSE IF AwaitBeforeYield(n) /\ ~ok THEN [@ EXCEPT !.pc = "except"]
       ELSE [@ EXCEPT !.pc = "send", !.yielded = Append(@, RealtimeSteps[n])]]
  /\ UNCHANGED <<httpVars, ioVars, wsVars, laterVars, emitLog, batch, svcCache>>

\* variant: the newest progress message overtakes what was sent before
PySendProgressNewestFirst(k, up) ==
  /\ pyWs[k].pc = "send"
  /\ LET progress == pyWs[k].yielded[Len(pyWs[k].yielded)] IN
     pyWs' = [pyWs EXCEPT ![k] =
       IF up THEN [@ EXCEPT !.pc = "loop",
                     !.out = <<ProgressMsg(pyWs[k].video, progress)>> \o @]
             ELSE [@ EXCEPT !.pc = "done"]]
  /\ UNCHANGED <<httpVars, ioVars, wsVars, laterVars, emitLog, batch, svcCache>>

\* loop body: send analysis_progress with the value just yielded
PySendProgress(k, up) ==
  /\ pyWs[k].pc = "send"
  /\ LET progress == pyWs[k].yielded[Len(pyWs[k].yielded)] IN
     pyWs' = [pyWs EXCEPT ![k] =
       IF up THEN [@ EXCEPT !.pc = "loop",
                     !.out = Append(@, ProgressMsg(pyWs[k].video, progress))]
             ELSE [@ EXCEPT !.pc = "done"]]
  /\ UNCHANGED <<httpVars, ioVars, wsVars, laterVars, emitLog, batch, svcCache>>

\* get_analysis_result, then send analysis_completed
PyGetResult(k, ok, up) ==
  /\ pyWs[k].pc = "result"
  /\ pyWs' = [pyWs EXCEPT ![k] =
       IF ~ok THEN [@ EXCEPT !.pc = "except"]
       ELSE IF up THEN [@ EXCEPT !.pc = "done",
                          !.out = Append(@, CompletedMsg(pyWs[k].video))]
       ELSE [@ EXCEPT !.pc = "done"]]
  /\ UNCHANGED <<httpVars, ioVars, wsVars, laterVars, emitLog, batch, svcCache>>

\* except Exception: send the error message
PyExcept(k) ==
  /\ pyWs[k].pc = "except"
  /\ pyWs' = [pyWs EXCEPT ![k] = [@ EXCEPT !.pc = "done", !.out = Append(@, ErrorMsg)]]
  /\ UNCHANGED <<httpVars, ioVars, wsVars, laterVars, emitLog, batch, svcCache>>

NextPy ==
  \/ \E k \in PyConns, v \in Videos : PyAccept(k, v)
  \/ \E k \in PyConns, up \in BOOLEAN : PySendStarted(k, up)
  \/ \E k \in PyConns, ok \in BOOLEAN : PyGenNext(k, ok)
  \/ \E k \in PyConns, up \in BOOLEAN : PySendProgress(k, up)
  \/ \E k \in PyConns, ok \in BOOLEAN, up \in BOOLEAN : PyGetResult(k, ok, up)
  \/ \E k \in PyConns : PyExcept(k)

SpecPy == Init /\ [][NextPy]_vars

\* ------------------------------------------------------------------------
\* Socket.IO emitters (user.js lines 229-252).  Nothing under src calls them;
\* here the caller is the environment.  io.to(room).emit writes the packet to
\* each socket in the room separately; `down` are the members whose transport
\* write fails.
\* ------------------------------------------------------------------------
MaxEmits == 2

SocketAnalysisIds == {1, 2}

\* sockets that have joined `analysis_${analysisId}`
RoomMembers(analysisId) == {s \in Sockets : analysisId \in rooms[s]}

\* variant: the first failing write aborts the whole broadcast
DeliverUntilFailure(box, members, down, msg) ==
  [s \in Sockets |->
     IF s \in members /\ down = {} THEN Append(box[s], msg) ELSE box[s]]

\* variant: io.emit(event, payload), to every connected socket
DeliverToEveryone(box, members, down, msg) ==
  [s \in Sockets |->
     IF s \in connected \ down THEN Append(box[s], msg) ELSE box[s]]

\* io.to(room).emit(event, payload)
Deliver(box, members, down, msg) ==
  [s \in Sockets |->
     IF s \in members \ down THEN Append(box[s], msg) ELSE box[s]]

EmitAnalysisProgress(analysisId, progress, down) ==
  /\ Len(emitLog) < MaxEmits
  /\ down \subseteq RoomMembers(analysisId)
  /\ LET msg == [analysisId |-> analysisId, type |-> "analysis_progress",
                 progress |-> progress]
     IN /\ inbox' = Deliver(inbox, RoomMembers(analysisId), down, msg)
        /\ emitLog' = Append(emitLog, [msg |-> msg,
                        members |-> RoomMembers(analysisId), down |-> down])
  /\ UNCHANGED <<httpVars, connected, rooms, wsVars, laterVars, batch, svcCache, pyWs>>

EmitAnalysisComplete(analysisId, down) ==
  /\ Len(emitLog) < MaxEmits
  /\ down \subseteq RoomMembers(analysisId)
  /\ LET msg == [analysisId |-> analysisId, type |-> "analysis_complete"]
     IN /\ inbox' = Deliver(inbox, RoomMembers(analysisId), down, msg)
        /\ emitLog' = Append(emitLog, [msg |-> msg,
                        members |-> RoomMembers(analysisId), down |-> down])
  /\ UNCHANGED <<httpVars, connected, rooms, wsVars, laterVars, batch, svcCache, pyWs>>

NextSocket ==
  \/ \E s \in Sockets : Connect(s)
  \/ \E s \in Sockets, analysisId \in SocketAnalysisIds : SubscribeAnalysis(s, analysisId)
  \/ \E s \in Sockets, analysisId \in SocketAnalysisIds : UnsubscribeAnalysis(s, analysisId)
  \/ \E s \in Sockets : Disconnect(s)
  \/ \E analysisId \in SocketAnalysisIds, down \in SUBSET Sockets :
       EmitAnalysisProgress(analysisId, PROGRESS_PROCESSING, down)
  \/ \E analysisId \in SocketAnalysisIds, down \in SUBSET Sockets :
       EmitAnalysisComplete(analysisId, down)

SpecSocket == Init /\ [][NextSocket]_vars

\* ------------------------------------------------------------------------
\* AnalysisService.analyze_video and _calculate_overall_score (part_000 lines
\* 390-434, 466-491).  Scores are counted in hundredths of a point (0..10000),
\* weights in tenths, so the weighted sum is in thousandths of a point.
\* ------------------------------------------------------------------------
\* scores a model can return, within the declared range 0-100
ScoreSamples == {0, 3751, FULL_SCORE}

\* result dicts of the three ai_service calls, with and without their score
SentimentResults ==
  {[sentiment_score |-> x] : x \in ScoreSamples} \cup {[text |-> "t"]}

BiasResults == {[bias_score |-> x] : x \in ScoreSamples} \cup {[text |-> "t"]}

CredibilityResults ==
  {[credibility_score |-> x] : x \in ScoreSamples} \cup {[text |-> "t"]}

\* weights = {'sentiment': 0.2, 'bias': 0.4, 'credibility': 0.4}, in tenths
Weights == [sentiment |-> 2, bias |-> 4, credibility |-> 4]

\* dict.get(key, default)
DictGet(d, key, default) == IF key \in DOMAIN d THEN d[key] ELSE default

\* round(x, 2): thousandths to hundredths, halves away from zero
Round2(thousandths) == (thousandths + 5) \div 10

\* variant: every dimension is weighted 0.4
CalculateOverallScoreEqualWeights(sentiment_result, bias_result, credibility_result) ==
  LET sentiment_score == DictGet(sentiment_result, "sentiment_score", DEFAULT_SCORE)
      bias_score == FULL_SCORE - DictGet(bias_result, "bias_score", DEFAULT_SCORE)
      credibility_score ==
        DictGet(credibility_result, "credibility_score", DEFAULT_SCORE)
  IN Round2(sentiment_score * Weights.bias + bias_score * Weights.bias
              + credibility_score * Weights.credibility)

CalculateOverallScore(sentiment_result, bias_result, credibility_result) ==
  LET sentiment_score == DictGet(sentiment_result, "sentiment_score", DEFAULT_SCORE)
      bias_score == FULL_SCORE - DictGet(bias_result, "bias_score", DEFAULT_SCORE)
      credibility_score ==
        DictGet(credibility_result, "credibility_score", DEFAULT_SCORE)
  IN Round2(sentiment_score * Weights.sentiment + bias_score * Weights.bias
              + credibility_score * Weights.credibility)

\* AnalysisResult(...) indexes sentiment_result['sentiment_score'] and
\* bias_result['bias_score'] directly: a missing key raises KeyError
ResultRaises(sentiment_result, bias_result) ==
  \/ "sentiment_score" \notin DOMAIN sentiment_result
  \/ "bias_score" \notin DOMAIN bias_result

BuildResult(video, sentiment_result, bias_result, credibility_result) ==
  [video_id |-> video,
   credibility_score |->
     CalculateOverallScore(sentiment_result, bias_result, credibility_result),
   sentiment_score |-> sentiment_result.sentiment_score,
   bias_score |-> bias_result.bias_score,
   analysis_breakdown |-> [sentiment |-> sentiment_result, bias |-> bias_result,
                           credibility |-> credibility_result]]

SvcOthers == <<httpVars, ioVars, wsVars, moreVars, repo, ext, overBudget, uiVars>>

\* analyze_video(video_id, transcript=...) is called
SvcAnalyzeVideo(v, transcript) ==
  /\ svc.pc \in {"idle", "returned", "raised"}
  /\ svc.calls < MaxSvcCalls
  /\ svc' = [NewSvc EXCEPT !.pc = "cacheGet", !.calls = svc.calls + 1,
                           !.video = v, !.transcript = transcript,
                           !.cache = svc.cache]
  /\ UNCHANGED SvcOthers

\* cached_result = await cache_service.get_analysis(video_id)
SvcCacheCheck(ok) ==
  /\ svc.pc = "cacheGet"
  /\ svc' = IF ~ok THEN [svc EXCEPT !.pc = "raised"]
            ELSE IF svc.cache[svc.video] # NoEntry
              THEN [svc EXCEPT !.pc = "returned", !.returned = svc.cache[svc.video]]
              ELSE [svc EXCEPT !.pc = IF svc.transcript THEN "sentiment" ELSE "fetch"]
  /\ UNCHANGED SvcOthers

\* variant: a failed fetch is swallowed and the analysis goes on
SvcFetchIgnoringFailure(ok) ==
  /\ svc.pc = "fetch"
  /\ svc' = IF ok THEN [svc EXCEPT !.pc = "sentiment",
                                   !.invoked = Append(@, "fetch")]
                  ELSE [svc EXCEPT !.pc = "sentiment", !.failedAt = "fetch",
                                   !.invoked = Append(@, "fetch")]
  /\ UNCHANGED SvcOthers

\* video_data = await youtube_service.get_video_data(video_id)
SvcFetch(ok) ==
  /\ svc.pc = "fetch"
  /\ svc' = IF ok THEN [svc EXCEPT !.pc = "sentiment",
                                   !.invoked = Append(@, "fetch")]
                  ELSE [svc EXCEPT !.pc = "raised", !.failedAt = "fetch",
                                   !.invoked = Append(@, "fetch")]
  /\ UNCHANGED SvcOthers

\* sentiment_result = await ai_service.analyze_sentiment(transcript)
SvcSentiment(d, ok) ==
  /\ svc.pc = "sentiment"
  /\ svc' = IF ok THEN [svc EXCEPT !.pc = "bias", !.sentiment = d,
                                   !.invoked = Append(@, "sentiment")]
                  ELSE [svc EXCEPT !.pc = "raised", !.failedAt = "sentiment",
                                   !.invoked = Append(@, "sentiment")]
  /\ UNCHANGED SvcOthers

\* bias_result = await ai_service.analyze_bias(transcript)
SvcBias(d, ok) ==
  /\ svc.pc = "bias"
  /\ svc' = IF ok THEN [svc EXCEPT !.pc = "credibility", !.bias = d,
                                   !.invoked = Append(@, "bias")]
                  ELSE [svc EXCEPT !.pc = "raised", !.failedAt = "bias",
                                   !.invoked = Append(@, "bias")]
  /\ UNCHANGED SvcOthers

\* credibility_result = await ...; then the score and the result are computed
SvcCredibility(d, ok) ==
  /\ svc.pc = "credibility"
  /\ svc' = IF ~ok \/ ResultRaises(svc.sentiment, svc.bias)
              THEN [svc EXCEPT !.pc = "raised", !.credibility = d,
                      !.failedAt = "credibility",
                      !.invoked = Append(@, "credibility")]
              ELSE [svc EXCEPT !.pc = "save", !.credibility = d,
                      !.invoked = Append(@, "credibility"),
                      !.result = BuildResult(svc.video, svc.sentiment, svc.bias, d)]
  /\ UNCHANGED SvcOthers

\* await cache_service.save_analysis(video_id, result); return result
SvcSave(ok) ==
  /\ svc.pc = "save"
  /\ svc' = IF ok THEN [svc EXCEPT !.pc = "returned", !.returned = svc.result,
                                   !.cache[svc.video] = svc.result]
                  ELSE [svc EXCEPT !.pc = "raised"]
  /\ UNCHANGED SvcOthers

NextSvc ==
  \/ \E v \in Videos, transcript \in BOOLEAN : SvcAnalyzeVideo(v, transcript)
  \/ \E ok \in BOOLEAN : SvcCacheCheck(ok)
  \/ \E ok \in BOOLEAN : SvcFetch(ok)
  \/ \E d \in SentimentResults, ok \in BOOLEAN : SvcSentiment(d, ok)
  \/ \E d \in BiasResults, ok \in BOOLEAN : SvcBias(d, ok)
  \/ \E d \in CredibilityResults, ok \in BOOLEAN : SvcCredibility(d, ok)
  \/ \E ok \in BOOLEAN : SvcSave(ok)

SpecSvc == Init /\ [][NextSvc]_vars

\* ------------------------------------------------------------------------
\* AnalysisRepository (database/repositories/analysisRepository.js) and
\* RedisService (part_001 lines 446-478) over one redis.  Values carry their
\* JavaScript type, because JSON.stringify treats the types differently.
\* ------------------------------------------------------------------------
NumberV(n) == [type |-> "number", v |-> n]

StringV(x) == [type |-> "string", v |-> x]

DateV(t) == [type |-> "date", v |-> t]

DecimalV(n) == [type |-> "decimal", v |-> n]

BigIntV(n) == [type |-> "bigint", v |-> n]

\* the row prisma.analysisResult.create returns (schema: part_024 242-272)
AnalysisResultRow(videoId, score, at) ==
  [id |-> BigIntV(1), videoId |-> StringV(videoId),
   credibilityScore |-> DecimalV(score), analysisTimestamp |-> DateV(at)]

\* values callers hand to RedisService.set
ServiceValues ==
  { [overall |-> NumberV(73)],
    [overall |-> NumberV(73), analyzedAt |-> DateV(0)] }

\* JSON.stringify throws a TypeError on a BigInt
StringifyThrows(value) == \E f \in DOMAIN value : value[f].type = "bigint"

\* what JSON.stringify writes for one field: Date.prototype.toJSON and
\* Decimal.prototype.toJSON give strings
JsonField(x) ==
  IF x.type \in {"date", "decimal"} THEN StringV(<<x.type, x.v>>) ELSE x

JSONStringifyTyped(value) ==
  <<"json", [f \in DOMAIN value |-> JsonField(value[f])]>>

\* redis.get(key): the stored string, or null once the ttl has elapsed
RepoRedisGet(key) ==
  IF repo.redis[key] # NoEntry /\ now < repo.redis[key].expiresAt
    THEN repo.redis[key].value
    ELSE NoEntry

\* try { redis.set(key, JSON.stringify(value), 'EX', ttl) } catch { log }
RepoRedisSet(redis, key, ttl, value, ok) ==
  IF ok /\ ~StringifyThrows(value)
    THEN [redis EXCEPT ![key] =
            [value |-> JSONStringifyTyped(value), expiresAt |-> now + ttl]]
    ELSE redis

RepoOthers == <<analyses, jobs, cache, req, ioVars, wsVars, moreVars, svc, ext,
                overBudget, uiVars>>

\* createAnalysisResult: prisma create, then cacheAnalysisResult(videoId, row)
CreateAnalysisResult(videoId, score, okDb, okRedis) ==
  /\ LET row == AnalysisResultRow(videoId, score, now) IN
     repo' = IF okDb
       THEN [repo EXCEPT
               !.db[videoId] = row,
               !.redis = RepoRedisSet(repo.redis, LatestKey(videoId), CACHE_TTL,
                                      row, okRedis),
               !.lastOp = [kind |-> "put", key |-> LatestKey(videoId),
                           value |-> row]]
       ELSE [repo EXCEPT !.lastOp = [kind |-> "error"]]
  /\ UNCHANGED <<now, RepoOthers>>

\* getLatestAnalysisByVideoId: redis first, then the database and re-cache
GetLatestAnalysisByVideoId(videoId, okGet, okDb, okSet) ==
  /\ LET cached == RepoRedisGet(LatestKey(videoId))
         row == repo.db[videoId]
     IN repo' =
       IF ~okGet THEN [repo EXCEPT !.lastOp = [kind |-> "error"]]
       ELSE IF cached # NoEntry
         THEN [repo EXCEPT !.lastOp = [kind |-> "get", key |-> LatestKey(videoId),
                                       cached |-> JSONParse(cached),
                                       returned |-> JSONParse(cached)]]
       ELSE IF ~okDb THEN [repo EXCEPT !.lastOp = [kind |-> "error"]]
       ELSE [repo EXCEPT
               !.redis = IF row # NoEntry
                           THEN RepoRedisSet(repo.redis, LatestKey(videoId),
                                             CACHE_TTL, row, okSet)
                           ELSE repo.redis,
               !.lastOp = [kind |-> "get", key |-> LatestKey(videoId),
                           cached |-> NoEntry, returned |-> row]]
  /\ UNCHANGED <<now, RepoOthers>>

\* RedisService.set(key, value, expireSeconds = 3600)
RedisServiceSet(key, value, ok) ==
  /\ repo' = [repo EXCEPT
                !.redis = RepoRedisSet(repo.redis, key, CACHE_TTL, value, ok),
                !.lastOp = [kind |-> "put", key |-> key, value |-> value]]
  /\ UNCHANGED <<now, RepoOthers>>

\* RedisService.get(key): JSON.parse of the stored string, null on any error
RedisServiceGet(key, ok) ==
  /\ LET value == IF ok THEN RepoRedisGet(key) ELSE NoEntry
         parsed == IF value # NoEntry THEN JSONParse(value) ELSE NoEntry
     IN repo' = [repo EXCEPT
                   !.lastOp = [kind |-> "get", key |-> key,
                               cached |-> parsed, returned |-> parsed]]
  /\ UNCHANGED <<now, RepoOthers>>

RepoTick ==
  /\ now + TickSeconds <= MaxNow
  /\ now' = now + TickSeconds
  /\ repo' = [repo EXCEPT !.lastOp = [kind |-> "tick"]]
  /\ UNCHANGED RepoOthers

NextRepo ==
  \/ \E v \in Videos, score \in ScoreSamples, okDb \in BOOLEAN, okRedis \in BOOLEAN :
       CreateAnalysisResult(v, score, okDb, okRedis)
  \/ \E v \in Videos, okGet \in BOOLEAN, okDb \in BOOLEAN, okSet \in BOOLEAN :
       GetLatestAnalysisByVideoId(v, okGet, okDb, okSet)
  \/ \E key \in ServiceKeys, value \in ServiceValues, ok \in BOOLEAN :
       RedisServiceSet(key, value, ok)
  \/ \E key \in ServiceKeys, ok \in BOOLEAN : RedisServiceGet(key, ok)
  \/ RepoTick

SpecRepo == Init /\ [][NextRepo]_vars

\* ------------------------------------------------------------------------
\* Extension background service (part_003): analyzeVideo with analysisCache,
\* clearCache, optimizeMemory.  Time is counted in hours.
\* ------------------------------------------------------------------------
\* normalizeAnalysisResult(result) of the server, generateMockAnalysis offline
ExtServerResult(v) == [video |-> v, model_version |-> "1.0.0"]

ExtMockResult(v) == [video |-> v, model_version |-> "mock-1.0.0"]

\* variant: an entry is used for as long as optimizeMemory would keep it
ExtFreshUntilSwept(entry) == ext.now - entry.timestamp <= EXT_MAX_AGE_HOURS

\* Date.now() - cached.timestamp < 24 * 60 * 60 * 1000
ExtFresh(entry) == ext.now - entry.timestamp < EXT_CACHE_HOURS

ExtOthers == <<httpVars, ioVars, wsVars, moreVars, svc, repo, overBudget, uiVars>>

\* analyzeVideo(videoId, videoData): a fresh cached result is returned at once
ExtAnalyzeVideo(v) ==
  /\ ext.pc = "idle"
  /\ LET cached == ext.analysisCache[v] IN
     ext' = IF cached # NoEntry /\ ExtFresh(cached)
       THEN [ext EXCEPT !.lastAnswer =
               [kind |-> "result", video |-> v, result |-> cached.result,
                cached |-> TRUE, at |-> ext.now, storedAt |-> cached.timestamp]]
       ELSE [ext EXCEPT !.pc = "request", !.video = v]
  /\ UNCHANGED ExtOthers

\* requestVideoAnalysis: the server's result; offline the mock; else it throws
ExtRequest(ok, online) ==
  /\ ext.pc = "request"
  /\ ext' = IF ok THEN [ext EXCEPT !.pc = "save", !.result = ExtServerResult(ext.video)]
            ELSE IF ~online
              THEN [ext EXCEPT !.pc = "save", !.result = ExtMockResult(ext.video)]
              ELSE [ext EXCEPT !.pc = "idle", !.video = "none",
                               !.lastAnswer = [kind |-> "error"]]
  /\ UNCHANGED ExtOthers

\* saveAnalysisResult (never throws), then analysisCache.set(videoId, ...)
ExtSaveAndCache ==
  /\ ext.pc = "save"
  /\ ext' = [ext EXCEPT !.pc = "notify",
               !.analysisCache[ext.video] =
                 [result |-> ext.result, timestamp |-> ext.now]]
  /\ UNCHANGED ExtOthers

\* showAnalysisNotification, then return analysisResult
ExtNotify(ok) ==
  /\ ext.pc = "notify"
  /\ ext' = [ext EXCEPT !.pc = "idle", !.video = "none", !.result = NoResult,
               !.lastAnswer =
                 IF ok THEN [kind |-> "result", video |-> ext.video,
                             result |-> ext.result, cached |-> FALSE,
                             at |-> ext.now, storedAt |-> ext.now]
                       ELSE [kind |-> "error"]]
  /\ UNCHANGED ExtOthers

\* clearCache()
ExtClearCache ==
  /\ \E v \in Videos : ext.analysisCache[v] # NoEntry
  /\ ext' = [ext EXCEPT !.analysisCache = [v \in Videos |-> NoEntry]]
  /\ UNCHANGED ExtOthers

\* optimizeMemory(): entries older than 7 days are deleted
ExtOptimizeMemory ==
  /\ ext' = [ext EXCEPT !.analysisCache = [v \in Videos |->
               IF ext.analysisCache[v] # NoEntry
                  /\ ext.now - ext.analysisCache[v].timestamp > EXT_MAX_AGE_HOURS
                 THEN NoEntry ELSE ext.analysisCache[v]]]
  /\ UNCHANGED ExtOthers

ExtTick ==
  /\ ext.now + ExtTickHours <= MaxExtNow
  /\ ext' = [ext EXCEPT !.now = @ + ExtTickHours]
  /\ UNCHANGED ExtOthers

NextExt ==
  \/ \E v \in Videos : ExtAnalyzeVideo(v)
  \/ \E ok \in BOOLEAN, online \in BOOLEAN : ExtRequest(ok, online)
  \/ ExtSaveAndCache
  \/ \E ok \in BOOLEAN : ExtNotify(ok)
  \/ ExtClearCache
  \/ ExtOptimizeMemory
  \/ ExtTick

SpecExt == Init /\ [][NextExt]_vars

\* ------------------- InfoGuardContentScript (content script, part_005 1-395)
ScriptOthers == <<httpVars, ioVars, wsVars, moreVars, svc, repo, ext, overBudget,
                  content, nodeWs, wsQueue>>

\* startAnalysis() up to its await: returns at once while isAnalyzing, else
\* sets it and sends { action: 'analyzeVideo', videoId: this.videoId }
StartAnalysis ==
  /\ ~contentScript.isAnalyzing
  /\ contentScript.sent < MaxScriptRequests
  /\ contentScript' = [contentScript EXCEPT
       !.isAnalyzing = TRUE,
       !.sent = @ + 1,
       !.inFlight = @ \cup {[n |-> contentScript.sent + 1,
                            video |-> contentScript.videoId]}]
  /\ UNCHANGED ScriptOthers

\* startAnalysis() after its await: the response for request q is stored and
\* displayed, or the error is shown; finally isAnalyzing = false
StartAnalysisResume(q, success) ==
  /\ q \in contentScript.inFlight
  /\ contentScript' = [contentScript EXCEPT
       !.inFlight = @ \ {q},
       !.analysisResult = IF success THEN [video |-> q.video] ELSE @,
       !.displayed = IF success THEN [video |-> q.video] ELSE @,
       !.isAnalyzing = FALSE]
  /\ UNCHANGED ScriptOthers

\* handlePageChange(): the UI is removed; for a new video id the script's
\* videoId, analysisResult and isAnalyzing are reset
HandlePageChange(newVideoId) ==
  /\ contentScript' =
       IF newVideoId # contentScript.videoId
         THEN [contentScript EXCEPT !.videoId = newVideoId,
                                    !.analysisResult = NoResult,
                                    !.displayed = NoResult,
                                    !.isAnalyzing = FALSE]
         ELSE [contentScript EXCEPT !.displayed = NoResult]
  /\ UNCHANGED ScriptOthers

NextScript ==
  \/ StartAnalysis
  \/ \E q \in contentScript.inFlight, success \in BOOLEAN :
       StartAnalysisResume(q, success)
  \/ \E v \in Videos : HandlePageChange(v)

SpecScript == Init /\ [][NextScript]_vars

\* ----------------------- InfoGuardContent (content script, part_005 422-987)
ContentOthers == <<httpVars, ioVars, wsVars, moreVars, svc, repo, ext, overBudget,
                   contentScript, nodeWs, wsQueue>>

\* what a GET_ANALYSIS_STATUS round trip can yield: the three statuses, a
\* response without success, a rejected sendMessage
StatusOutcomes == {"completed", "failed", "processing", "unsuccessful", "rejected"}

\* handleAnalysisClick() up to its await
HandleAnalysisClick ==
  /\ ~content.isAnalyzing
  /\ content.clicks < MaxClicks
  /\ content' = [content EXCEPT !.isAnalyzing = TRUE, !.pc = "request",
                                !.clicks = @ + 1, !.attempts = 0]
  /\ UNCHANGED ContentOthers

\* handleAnalysisClick() after its await: on success monitorAnalysisProgress
\* runs up to the first status request (attempts++); otherwise the catch
\* block resets isAnalyzing
HandleAnalysisResponse(success) ==
  /\ content.pc = "request"
  /\ content' = IF success
       THEN [content EXCEPT !.pc = "status", !.attempts = 1]
       ELSE [content EXCEPT !.pc = "idle", !.isAnalyzing = FALSE]
  /\ UNCHANGED ContentOthers

\* checkProgress() after its await. Its promise is not awaited by
\* monitorAnalysisProgress, so what it throws is caught nowhere.
CheckProgress(outcome) ==
  /\ content.pc = "status"
  /\ content' =
       CASE outcome = "completed" -> [content EXCEPT !.pc = "result"]
         [] outcome = "processing" /\ content.attempts < maxAttempts ->
              [content EXCEPT !.pc = "timer"]
         [] OTHER -> [content EXCEPT !.pc = "rejected"]
  /\ UNCHANGED ContentOthers

\* setTimeout(checkProgress, 5000) fires: attempts++, the next status request
CheckProgressTimer ==
  /\ content.pc = "timer"
  /\ content' = [content EXCEPT !.pc = "status", !.attempts = @ + 1]
  /\ UNCHANGED ContentOthers

\* loadAnalysisResult(): whatever the answer, finally isAnalyzing = false
LoadAnalysisResult(success) ==
  /\ content.pc = "result"
  /\ content' = [content EXCEPT !.pc = "idle", !.isAnalyzing = FALSE]
  /\ UNCHANGED ContentOthers

NextContent ==
  \/ HandleAnalysisClick
  \/ \E success \in BOOLEAN : HandleAnalysisResponse(success)
  \/ \E outcome \in StatusOutcomes : CheckProgress(outcome)
  \/ CheckProgressTimer
  \/ \E success \in BOOLEAN : LoadAnalysisResult(success)

SpecContent == Init /\ [][NextContent]_vars

\* ------------------------- WebSocket of the node server (part_013 94-167)
NodeWsOthers == <<httpVars, ioVars, wsVars, moreVars, svc, repo, ext, overBudget,
                  contentScript, content, wsQueue>>

\* messages a client can send: start_analysis with or without a video, ping,
\* and text that is not JSON
NodeWsMessages == {"start_analysis", "start_analysis_no_video", "ping", "not_json"}

\* ws.send(JSON.stringify({ type, ... })) from the handler of message m
\* (m = 0: no start_analysis message); nothing is delivered on a closed socket
NodeWsSend(w, type, m) ==
  IF w.open THEN [w EXCEPT !.sent = Append(@, [type |-> type, message |-> m])]
            ELSE w

\* ws.on('message'): JSON.parse, then by type; handleAnalysisRequest runs up
\* to its first await
NodeWsOnMessage(kind) ==
  /\ nodeWs.open
  /\ nodeWs.received < MaxWsMessages
  /\ LET m == Len(nodeWs.handlers) + 1
         w == [nodeWs EXCEPT !.received = @ + 1] IN
     nodeWs' =
       CASE kind = "start_analysis" ->
              NodeWsSend([w EXCEPT !.handlers = Append(@, "getVideoData")],
                         "analysis_started", m)
         [] kind = "start_analysis_no_video" ->
              NodeWsSend([w EXCEPT !.handlers = Append(@, "returned")],
                         "error", m)
         [] kind = "ping" -> NodeWsSend(w, "pong", 0)
         [] OTHER -> NodeWsSend(w, "error", 0)
  /\ UNCHANGED NodeWsOthers

\* variant: a failed getVideoData ends the handler without a reply
NodeWsGetVideoDataSilent(m, ok) ==
  /\ m \in DOMAIN nodeWs.handlers
  /\ nodeWs.handlers[m] = "getVideoData"
  /\ nodeWs' = IF ok
       THEN [nodeWs EXCEPT !.handlers[m] = "analyzeVideo"]
       ELSE [nodeWs EXCEPT !.handlers[m] = "returned"]
  /\ UNCHANGED NodeWsOthers

\* await youtubeService.getVideoData(...) settles
NodeWsGetVideoData(m, ok) ==
  /\ m \in DOMAIN nodeWs.handlers
  /\ nodeWs.handlers[m] = "getVideoData"
  /\ nodeWs' = IF ok
       THEN [nodeWs EXCEPT !.handlers[m] = "analyzeVideo"]
       ELSE NodeWsSend([nodeWs EXCEPT !.handlers[m] = "returned"], "error", m)
  /\ UNCHANGED NodeWsOthers

\* await analysisService.analyzeVideo(videoData) settles
NodeWsAnalyzeVideo(m, ok) ==
  /\ m \in DOMAIN nodeWs.handlers
  /\ nodeWs.handlers[m] = "analyzeVideo"
  /\ nodeWs' = NodeWsSend([nodeWs EXCEPT !.handlers[m] = "returned"],
                          IF ok THEN "analysis_completed" ELSE "error", m)
  /\ UNCHANGED NodeWsOthers

\* ws.on('close')
NodeWsClose ==
  /\ nodeWs.open
  /\ nodeWs' = [nodeWs EXCEPT !.open = FALSE]
  /\ UNCHANGED NodeWsOthers

NodeWsSettle ==
  \E m \in 1..MaxWsMessages, ok \in BOOLEAN :
    NodeWsGetVideoData(m, ok) \/ NodeWsAnalyzeVideo(m, ok)

NextNodeWs ==
  \/ \E kind \in NodeWsMessages : NodeWsOnMessage(kind)
  \/ \E m \in 1..MaxWsMessages, ok \in BOOLEAN : NodeWsGetVideoData(m, ok)
  \/ \E m \in 1..MaxWsMessages, ok \in BOOLEAN : NodeWsAnalyzeVideo(m, ok)
  \/ NodeWsClose

\* the awaited service calls settle: they resolve or reject
SpecNodeWs == Init /\ [][NextNodeWs]_vars /\ WF_vars(NodeWsSettle)

\* ================================================================ claims
NonTerminal == {"pending", "processing"}

Terminal == {"completed", "failed", "cancelled"}

Answered202 == {r \in 1..MaxReq : req[r].resp.sent /\ req[r].resp.code = 202}

\* C1: two requests for the same content id that are in flight together
\* (both accepted, neither session yet terminal, nothing cached) were given
\* the same session id.
C1_CoalescedSameSession ==
  \A r1 \in Answered202, r2 \in Answered202 :
    ( /\ req[r1].url = req[r2].url
      /\ analyses[req[r1].resp.analysisId].status \in NonTerminal
      /\ analyses[req[r2].resp.analysisId].status \in NonTerminal )
    => req[r1].resp.analysisId = req[r2].resp.analysisId

\* C2: at every moment at most one session per content id is non-terminal.
C2_OneInFlightPerContent ==
  \A i \in DOMAIN analyses, j \in DOMAIN analyses :
    ( /\ analyses[i].videoUrl = analyses[j].videoUrl
      /\ analyses[i].status \in NonTerminal
      /\ analyses[j].status \in NonTerminal )
    => i = j

\* C3: once a session is Completed, Failed or Cancelled its state never
\* changes again.
C3_TerminalIsFinal ==
  [][\A id \in DOMAIN analyses :
       analyses[id].status \in Terminal
         => analyses'[id].status = analyses[id].status]_vars

\* C4: a request whose cache read returns a fresh entry is answered at once
\* with a completed, cached handle carrying the cached id and result; the
\* step creates no analysis, schedules no job and pushes no event.
C4_CacheHitShortCircuits ==
  [][\A r \in 1..MaxReq :
       ( /\ req[r].pc = "cacheGet"
         /\ RedisGet(req[r].url) # NoEntry
         /\ req'[r] # req[r]
         /\ ~(req'[r].resp.sent /\ req'[r].resp.code = 500) )
       => /\ req'[r].pc = "done"
          /\ req'[r].resp.sent
          /\ req'[r].resp.code = 200
          /\ req'[r].resp.status = "completed"
          /\ req'[r].resp.cached
          /\ req'[r].resp.analysisId = JSONParse(RedisGet(req[r].url)).analysisId
          /\ req'[r].resp.result = JSONParse(RedisGet(req[r].url)).result
          /\ analyses' = analyses
          /\ jobs' = jobs
          /\ inbox' = inbox]_vars

C4_Witness ==
  \E r \in 1..MaxReq :
    /\ req[r].resp.sent
    /\ req[r].resp.code = 200
    /\ req[r].resp.cached
    /\ Len(analyses) = 1

\* C5: a session is Failed only after the failing stage was attempted twice
\* (one retry), and the failing stage's name is recorded with the error.
C5_FailedOnlyAfterRetry ==
  \A id \in DOMAIN analyses :
    analyses[id].status = "failed"
      => /\ jobs[id].calls[jobs[id].thrownBy] = 2
         /\ "stage" \in DOMAIN GetStatus(id)

\* C6: a session exposes a result if and only if it is Completed.
C6_ResultIffCompleted ==
  \A id \in DOMAIN analyses :
    (GetStatus(id).result # NoResult) <=> (GetStatus(id).status = "completed")

\* C7: when the cache write that follows a successful analysis fails, the
\* session is still reported as Completed.
C7_CacheFailureNonFatal ==
  \A id \in DOMAIN analyses :
    jobs[id].thrownBy = "setEx" => GetStatus(id).status = "completed"

TerminalEventOf(status) ==
  CASE status = "completed" -> "analysis_complete"
    [] status = "failed" -> "analysis_failed"
    [] status = "cancelled" -> "analysis_cancelled"
    [] OTHER -> "none"

TerminalEvents == {"analysis_complete", "analysis_failed", "analysis_cancelled"}

\* C8: for every session in a terminal state, each socket subscribed to it
\* has been pushed the terminal event of that same state, and no pushed
\* terminal event names a state other than the one get_status reports.
C8_PullMatchesPush ==
  \A id \in DOMAIN analyses, s \in Sockets :
    /\ (id \in rooms[s] /\ GetStatus(id).status \in Terminal)
         => \E i \in DOMAIN inbox[s] :
              /\ inbox[s][i].analysisId = id
              /\ inbox[s][i].type = TerminalEventOf(GetStatus(id).status)
    /\ \A i \in DOMAIN inbox[s] :
         (inbox[s][i].analysisId = id /\ inbox[s][i].type \in TerminalEvents)
           => inbox[s][i].type = TerminalEventOf(GetStatus(id).status)

\* C10: a session whose cancel was accepted never has a result in the cache,
\* also after a scorer call that was in flight at cancel time has returned.
C10_CancelledNeverCached ==
  \A t \in DOMAIN tasks :
    tasks[t].cancelAccepted
      => /\ tasks[t].state = "Cancelled"
         /\ \A v \in Videos :
              pyCache[v] = NoEntry \/ pyCache[v].session # t

C10_Witness ==
  \E t \in DOMAIN tasks :
    /\ tasks[t].cancelAccepted
    /\ tasks[t].lateReturn
    /\ ~tasks[t].inflight

\* C11: a session whose cancel was accepted while it was Pending never
\* becomes Running: from then on it is Cancelled in every step.
C11_PendingCancelNeverRuns ==
  [][\A t \in DOMAIN tasks :
       tasks[t].cancelledIn = "Pending"
         => /\ tasks[t].state = "Cancelled"
            /\ tasks'[t].state = "Cancelled"
            /\ ~tasks'[t].inflight
            /\ tasks'[t].done = 0]_vars

C11_Witness ==
  \E t \in DOMAIN tasks :
    /\ tasks[t].cancelledIn = "Pending"
    /\ tasks[t].state = "Cancelled"
    /\ wsPc[tasks[t].conn] = "receive"

\* C12: once a cancel was accepted for a Running session no scorer call is
\* dispatched for it any more and no further stage is recorded; a call
\* already in flight may still return.
C12_NoStageAfterCancel ==
  [][\A t \in DOMAIN tasks :
       tasks[t].cancelledIn = "Running"
         => /\ (tasks'[t].inflight => tasks[t].inflight)
            /\ tasks'[t].done = tasks[t].done
            /\ tasks'[t].state = "Cancelled"]_vars

C12_Witness ==
  \E t \in DOMAIN tasks :
    /\ tasks[t].cancelledIn = "Running"
    /\ tasks[t].lateReturn
    /\ tasks[t].done < Len(tasks[t].stages)
\* ---- C13..C15: POST /batch
BatchItemTerminal == {"completed", "failed", "threw"}

BatchInFlight == {i \in DOMAIN batch.items : batch.items[i] \in BatchActive}

BatchAccepted == batch.pc = "done" /\ batch.resp.code # 400

C14_BatchIsolation ==
  BatchAccepted =>
    /\ batch.resp.code = 200
    /\ Len(batch.resp.data) = Len(batch.videos)
    /\ \A i \in DOMAIN batch.items : batch.items[i] \in {"completed", "failed"}

\* C15: when an item of a batch ends (success or failure) and an item is
\* still queued behind it, that next item is started in the same step.
C15_NextQueuedAdmitted ==
  [][\A i \in DOMAIN batch.items :
       ( /\ batch.pc = "running"
         /\ i \in DOMAIN batch'.items
         /\ batch.items[i] \notin BatchItemTerminal
         /\ batch'.items[i] \in BatchItemTerminal
         /\ i + 1 \in DOMAIN batch.items )
       => batch'.items[i + 1] # "queued"]_vars


\* ---- C16: /ws/analysis/{video_id}
IsProgress(m) == m.type = "analysis_progress"

IsTerminalMsg(m) == m.type \in {"analysis_completed", "error"}

\* C16: on every connection the started message comes first, the progress
\* messages arrive in the order the generator yielded them, and the
\* terminal message (completed or error) is the last one.
C16_OrderPreserved ==
  \A k \in PyConns :
    LET out == pyWs[k].out
        prog == SelectSeq(out, IsProgress)
    IN /\ out # <<>> => out[1].type = "analysis_started"
       /\ \A i \in 2..Len(out) : out[i].type # "analysis_started"
       /\ Len(prog) <= Len(pyWs[k].yielded)
       /\ \A i \in 1..Len(prog) : prog[i].progress = pyWs[k].yielded[i]
       /\ \A i \in 1..Len(out) : IsTerminalMsg(out[i]) => i = Len(out)

C16_Witness ==
  \E k \in PyConns :
    /\ pyWs[k].pc = "done"
    /\ Len(pyWs[k].out) = Len(RealtimeSteps) + 2
    /\ pyWs[k].out[Len(pyWs[k].out)].type = "analysis_completed"


\* ---- C17..C19: Socket.IO subscriptions
\* C17: a socket that subscribes to an analysis which is already terminal is
\* not added to its room (it is answered with the terminal event instead).
C17_LateSubscriberNotRegistered ==
  [][\A s \in Sockets, id \in DOMAIN analyses :
       (GetStatus(id).status \in Terminal /\ id \notin rooms[s])
         => id \notin rooms'[s]]_vars

\* the emit made in this step, if any
EmitStep == Len(emitLog') = Len(emitLog) + 1

LastEmit == emitLog'[Len(emitLog')]

C19_TornDownAfterTerminal ==
  [][(EmitStep /\ LastEmit.msg.type \in TerminalEvents)
       => \A s \in Sockets : LastEmit.msg.analysisId \notin rooms'[s]]_vars


\* ---- C21, C22: progress percentages of /ws/analysis/{video_id}
\* service calls the generator has finished when it makes its n-th yield
StagesCompletedAtYield(n) == Cardinality({m \in 1..n : AwaitBeforeYield(m)})

TotalStages == StagesCompletedAtYield(Len(RealtimeSteps))

\* round(100 * done / total), halves rounded up
RoundPercent(done, total) == (200 * done + total) \div (2 * total)

ProgressValues(k) ==
  LET prog == SelectSeq(pyWs[k].out, IsProgress)
  IN [i \in 1..Len(prog) |-> prog[i].progress.progress]

\* C21: the percentages of a connection's successive progress messages never
\* decrease and each equals round(100 * stages_completed / total_stages).
C21_ProgressFormula ==
  \A k \in PyConns :
    LET pv == ProgressValues(k) IN
      /\ \A i \in 1..(Len(pv) - 1) : pv[i] <= pv[i + 1]
      /\ \A i \in 1..Len(pv) :
           pv[i] = RoundPercent(StagesCompletedAtYield(i), TotalStages)

\* C22: a connection that was sent analysis_completed was sent exactly two
\* progress messages before it, at 50 and at 100 percent.
C22_TwoStagesTwoEvents ==
  \A k \in PyConns :
    (pyWs[k].out # <<>>
       /\ pyWs[k].out[Len(pyWs[k].out)].type = "analysis_completed")
      => ProgressValues(k) = <<PROGRESS_PROCESSING, PROGRESS_COMPLETED>>


\* ---- C23, C24: overall score of analyze_video
\* C23: every result analyze_video returns has 0 <= overall score <= 100.
C23_OverallScoreInRange ==
  svc.returned # NoResult =>
    /\ svc.returned.credibility_score >= 0
    /\ svc.returned.credibility_score <= FULL_SCORE

C23_Witness ==
  /\ svc.pc = "returned"
  /\ svc.returned # NoResult
  /\ svc.returned.credibility_score = FULL_SCORE
  /\ svc.returned.analysis_breakdown.bias.bias_score = 0

\* weights of the dimensions whose score is present, and their weighted sum
PresentWeight(b) ==
  (IF "sentiment_score" \in DOMAIN b.sentiment THEN Weights.sentiment ELSE 0)
  + (IF "bias_score" \in DOMAIN b.bias THEN Weights.bias ELSE 0)
  + (IF "credibility_score" \in DOMAIN b.credibility THEN Weights.credibility ELSE 0)

PresentSum(b) ==
  (IF "sentiment_score" \in DOMAIN b.sentiment
     THEN Weights.sentiment * b.sentiment.sentiment_score ELSE 0)
  + (IF "bias_score" \in DOMAIN b.bias
       THEN Weights.bias * (FULL_SCORE - b.bias.bias_score) ELSE 0)
  + (IF "credibility_score" \in DOMAIN b.credibility
       THEN Weights.credibility * b.credibility.credibility_score ELSE 0)

\* C24: the overall score is the weighted sum of the scores that are present,
\* with their weights rescaled to sum to 1.
C24_WeightsRenormalised ==
  svc.returned # NoResult =>
    LET b == svc.returned.analysis_breakdown
    IN svc.returned.credibility_score
         = Round2((10 * PresentSum(b)) \div PresentWeight(b))


\* ---- C25: cache round trip
\* C25: a cache read of a key made directly after a put of that key returns
\* a value equal to the one that was put.
C25_PutThenGet ==
  [][(/\ repo.lastOp.kind = "put"
      /\ repo'.lastOp.kind = "get"
      /\ repo'.lastOp.key = repo.lastOp.key)
       => repo'.lastOp.cached = repo.lastOp.value]_vars


\* ---- C26: passive expiry of the extension's analysisCache
\* C26: a result answered from the cache was stored less than the cache
\* duration before the read; an older entry is never returned, whether or
\* not optimizeMemory has run.
C26_ExpiredNeverReturned ==
  (ext.lastAnswer.kind = "result" /\ ext.lastAnswer.cached)
    => ext.lastAnswer.at - ext.lastAnswer.storedAt < EXT_CACHE_HOURS

\* an entry past its duration is still in the map and the read went on to
\* request a new analysis
C26_Witness ==
  /\ ext.pc = "request"
  /\ ext.analysisCache[ext.video] # NoEntry
  /\ ext.now - ext.analysisCache[ext.video].timestamp >= EXT_CACHE_HOURS
  /\ ext.lastAnswer.kind = "result"


\* ---- C27: requested_stages validation of POST /analyze
KnownStages == {"sentiment", "bias", "credibility"}

ValidStages(stages) ==
  /\ Len(stages) > 0
  /\ \A i \in 1..Len(stages) : stages[i] \in KnownStages

\* C27: a request whose requested_stages is empty or names an unknown stage
\* is never accepted (202) or answered with a result (200): it is rejected
\* and no analysis is created for it.
C27_InvalidStagesRejected ==
  \A r \in 1..MaxReq :
    (req[r].pc = "done" /\ req[r].stages.present
       /\ ~ValidStages(req[r].stages.value))
      => req[r].resp.code \notin {200, 202}


\* ---- C28: idempotence of GET /status on a terminal analysis
\* C28: once GET /status reports a terminal status for an analysis, every
\* later GET /status of it returns the same snapshot.
C28_TerminalSnapshotStable ==
  [][\A id \in DOMAIN analyses :
       GetStatus(id).status \in Terminal => GetStatus(id)' = GetStatus(id)]_vars


\* ---- C29, C30: the session-wide timeout
CachedBy(id) ==
  \E u \in Urls : cache[u] # NoEntry /\ JSONParse(cache[u].value).analysisId = id

\* C29: an analysis that ran over its time budget ends like a cancelled one:
\* its terminal status is cancelled and it has written nothing to the cache.
C29_TimeoutLikeCancel ==
  \A id \in overBudget :
    /\ analyses[id].status \in Terminal => analyses[id].status = "cancelled"
    /\ ~CachedBy(id)

\* C30: an analysis that ran over its time budget ends failed with a
\* TimeoutError, and no analysis is cancelled other than by a user.
C30_TimeoutIsFailed ==
  \A id \in DOMAIN analyses :
    /\ (id \in overBudget /\ analyses[id].status \in Terminal)
         => (analyses[id].status = "failed" /\ analyses[id].error = "TimeoutError")
    /\ analyses[id].status # "cancelled"


\* ---- C31: the content fetch of analyze_video
ScorerStages == {"sentiment", "bias", "credibility"}

FetchCount == Cardinality({i \in DOMAIN svc.invoked : svc.invoked[i] = "fetch"})

StageInvoked == \E i \in DOMAIN svc.invoked : svc.invoked[i] \in ScorerStages

IsMockResult(r) == r # NoResult /\ r.model_version = "mock-1.0.0"

\* C32: the result made up while offline is never handed back as an ordinary
\* analysis result and never stored in analysisCache as one.
C32_MockNeverNormalResult ==
  /\ ext.lastAnswer.kind = "result" => ~IsMockResult(ext.lastAnswer.result)
  /\ \A v \in Videos :
       ext.analysisCache[v] # NoEntry => ~IsMockResult(ext.analysisCache[v].result)


\* ---- C33: the background job of POST /analyze
\* the job has no step left to take
JobOver(id) == jobs[id].pc \in {"done", "failed", "crashed"}

\* C33: a record whose background job has no step left is 'completed' or
\* 'failed'; nothing will ever move a record left 'pending' or 'processing'
\* at that point.
C33_JobEndsInCompletedOrFailed ==
  \A id \in DOMAIN jobs :
    JobOver(id) => analyses[id].status \in {"completed", "failed"}


\* ---- C34: isAnalyzing of InfoGuardContent
\* no request, status check, timer or result load of the click is outstanding
ClickOver == content.pc \in {"idle", "rejected"}

\* C34: once nothing of a click is outstanding any more (no request, status
\* check, timer or result load), isAnalyzing is false again.
C34_IsAnalyzingResetAfterClick == ClickOver => ~content.isAnalyzing

\* ---- C35: requests and results of InfoGuardContentScript
\* C35: the stored and the displayed result belong to the script's current
\* videoId, and at most one analyzeVideo request is in flight.
C35_ResultOfCurrentVideo ==
  /\ contentScript.analysisResult # NoResult
       => contentScript.analysisResult.video = contentScript.videoId
  /\ contentScript.displayed # NoResult
       => contentScript.displayed.video = contentScript.videoId
  /\ Cardinality(contentScript.inFlight) <= 1


\* ---- C37: replies of the node WebSocket
\* positions in nodeWs.sent of the replies of the given types to message m
RepliesTo(m, types) ==
  {i \in DOMAIN nodeWs.sent :
     nodeWs.sent[i].message = m /\ nodeWs.sent[i].type \in types}

TerminalReplies(m) == RepliesTo(m, {"analysis_completed", "error"})

\* at most one terminal reply per message, exactly one once its handler has
\* returned, and an analysis_started before each analysis_completed
OneTerminalReply ==
  nodeWs.open =>
    \A m \in DOMAIN nodeWs.handlers :
      /\ Cardinality(TerminalReplies(m)) <= 1
      /\ nodeWs.handlers[m] = "returned" => Cardinality(TerminalReplies(m)) = 1
      /\ \A i \in RepliesTo(m, {"analysis_completed"}) :
           \E j \in RepliesTo(m, {"analysis_started"}) : j < i

C36_CancelReadBeforeTaskEnds ==
  \A k \in Conns :
    (wsQueue[k] # NoMessage /\ wsQueue[k].during # 0)
      => tasks[wsQueue[k].during].state \notin {"Completed", "Failed"}


\* ---- C38: who receives the events of an analysis
\* C38: a step that delivers an event to a socket delivers one event, of an
\* analysis whose room the socket is in at that moment: it has subscribed to
\* the analysis and has neither unsubscribed from it nor disconnected since.
C38_OnlySubscribersReceive ==
  [][\A s \in Sockets :
       inbox'[s] # inbox[s]
         => /\ s \in connected
            /\ Len(inbox'[s]) = Len(inbox[s]) + 1
            /\ inbox'[s][Len(inbox'[s])].analysisId \in rooms[s]
            /\ inbox'[s] = Append(inbox[s], inbox'[s][Len(inbox'[s])])]_vars

\* an event of analysis 1 has reached a subscriber while a connected socket
\* subscribed to analysis 2 only has received nothing
C38_Witness ==
  \E s, t \in Sockets :
    /\ s # t
    /\ t \in connected
    /\ rooms[t] = {2}
    /\ inbox[t] = <<>>
    /\ \E i \in DOMAIN inbox[s] : inbox[s][i].analysisId = 1


\* ---- C39: the response of POST /batch
\* C39: the answer to a batch of 1 to 10 videos is a 200 whose data has one
\* entry per input video, in input order, each 'completed' or 'failed'; a
\* batch of more than 10 videos is answered 400 with no item started, no
\* result and nothing cached.
C39_OneEntryPerVideoInOrder ==
  /\ (batch.pc = "done" /\ Len(batch.videos) \in 1..MAX_BATCH_VIDEOS)
       => /\ batch.resp.code = 200
          /\ Len(batch.resp.data) = Len(batch.videos)
          /\ \A i \in DOMAIN batch.videos :
               /\ batch.resp.data[i].videoId = batch.videos[i]
               /\ batch.resp.data[i].status \in {"completed", "failed"}
  /\ Len(batch.videos) > MAX_BATCH_VIDEOS
       => /\ batch.pc = "done"
          /\ batch.resp.code = 400
          /\ \A i \in DOMAIN batch.items : batch.items[i] = "queued"
          /\ batch.results = <<>>
          /\ \A v \in BatchVideos : svcCache[v] = NoEntry


====
